---- MODULE Spec2Model ----
(***************************************************************************)
(* Verification model of package posixperm (src/main.go).                  *)
(*                                                                         *)
(* Representation.  A text ([]byte / string) is a sequence of one-         *)
(* character strings.  A Perm (a uint32) is the set of its set bit         *)
(* positions, bit i having weight 2^i, so that  |  is \cup,  &  is \cap    *)
(* and  ^x  is the complement within 0..31.  Bits(n) converts a small      *)
(* natural number to that representation.                                  *)
(***************************************************************************)
EXTENDS Integers, Sequences, FiniteSets, TLC

----------------------------------------------------------------------------
(* uint32 values as bit sets *)

BitSize == 32

AllBits == 0 .. (BitSize - 1)

RECURSIVE Pow2(_)
Pow2(n) == IF n = 0 THEN 1 ELSE 2 * Pow2(n - 1)

Pow2Tab == [i \in 0 .. 30 |-> Pow2(i)]

\* The bit set of a natural number below 2^31.
Bits(n) == {i \in 0 .. 30 : (n \div Pow2Tab[i]) % 2 = 1}

\* The octal literal 0oabc.
Oct3(a, b, c) == Bits(a * 64 + b * 8 + c)

\* The octal literals of the source.
O777 == Oct3(7, 7, 7)

O700 == Oct3(7, 0, 0)

O070 == Oct3(0, 7, 0)

O007 == Oct3(0, 0, 7)

O444 == Oct3(4, 4, 4)

O222 == Oct3(2, 2, 2)

O111 == Oct3(1, 1, 1)

O400 == Oct3(4, 0, 0)

O200 == Oct3(2, 0, 0)

O100 == Oct3(1, 0, 0)

O040 == Oct3(0, 4, 0)

O020 == Oct3(0, 2, 0)

O010 == Oct3(0, 1, 0)

O004 == Oct3(0, 0, 4)

O002 == Oct3(0, 0, 2)

O001 == Oct3(0, 0, 1)

Zero == {}

Or(x, y) == x \cup y

And(x, y) == x \cap y

Not(x) == AllBits \ x

----------------------------------------------------------------------------
(* io/fs mode bits, as used by fromFull, and FileMode.String's letters *)

ModeDir == {31}

ModeAppend == {30}

ModeExclusive == {29}

ModeTemporary == {28}

ModeSymlink == {27}

ModeDevice == {26}

ModeNamedPipe == {25}

ModeSocket == {24}

ModeSetuid == {23}

ModeSetgid == {22}

ModeCharDevice == {21}

ModeSticky == {20}

ModeIrregular == {19}

\* const str = "dalTLDpSugct?" of FileMode.String: letter j belongs to bit 32-j.
ModeStr == <<"d", "a", "l", "T", "L", "D", "p", "S", "u", "g", "c", "t", "?">>

\* const rwx = "rwxrwxrwx" of FileMode.String: letter i belongs to bit 9-i.
RwxStr == <<"r", "w", "x", "r", "w", "x", "r", "w", "x">>

----------------------------------------------------------------------------
(* Character classes of the regular expressions *)

Digit17 == {"1", "2", "3", "4", "5", "6", "7"}

Digit07 == {"0"} \cup Digit17

Digit09 == Digit07 \cup {"8", "9"}

Ugo == {"u", "g", "o"}

Ops == {"-", "=", "+"}

Rwx == {"r", "w", "x"}

\* \s of Go's regexp syntax: [\t\n\f\r ]
Whitespace == {" ", "\t", "\n", "\f", "\r"}

\* [dalTLDpSugct?]
ModeLetters == {ModeStr[j] : j \in 1 .. Len(ModeStr)}

AllIn(b, lo, hi, S) == \A i \in lo .. hi : b[i] \in S

----------------------------------------------------------------------------
(* strconv.ParseUint(s, base, 32), as called by fromImplicit/fromExplicit. *)
(* The accumulator n is kept as two 16-bit limbs (hi, lo); the result is   *)
(* [v |-> value as a bit set, err |-> "" | "syntax" | "range"].  On a      *)
(* range error ParseUint returns the maximum value, on a syntax error 0.   *)
(* The digit separator "_" that base 0 admits is not modelled (it is a     *)
(* syntax error here): no regular expression lets it reach ParseUint.      *)

Limb == Pow2Tab[16]

DigitVal(c) ==
    CASE c = "0" -> 0 [] c = "1" -> 1 [] c = "2" -> 2 [] c = "3" -> 3
      [] c = "4" -> 4 [] c = "5" -> 5 [] c = "6" -> 6 [] c = "7" -> 7
      [] c = "8" -> 8 [] c = "9" -> 9
      [] c \in {"a", "A"} -> 10 [] c \in {"b", "B"} -> 11 [] c \in {"c", "C"} -> 12
      [] c \in {"d", "D"} -> 13 [] c \in {"e", "E"} -> 14 [] c \in {"f", "F"} -> 15
      [] OTHER -> 255

LimbsToBits(hi, lo) == Bits(lo) \cup {i + 16 : i \in Bits(hi)}

RECURSIVE ParseDigits(_, _, _, _, _)
ParseDigits(s, i, base, hi, lo) ==
    IF i > Len(s) THEN [v |-> LimbsToBits(hi, lo), err |-> ""]
    ELSE LET d == DigitVal(s[i]) IN
         IF d >= base THEN [v |-> Zero, err |-> "syntax"]
         ELSE LET lo1 == lo * base + d
                  hi1 == hi * base + (lo1 \div Limb)
              IN  IF hi1 >= Limb                    \* n1 > maxVal
                  THEN [v |-> AllBits, err |-> "range"]
                  ELSE ParseDigits(s, i + 1, base, hi1, lo1 % Limb)

ParseUint(s, base) ==
    IF Len(s) = 0 THEN [v |-> Zero, err |-> "syntax"]
    ELSE IF base # 0 THEN ParseDigits(s, 1, base, 0, 0)
    ELSE IF s[1] # "0" THEN ParseDigits(s, 1, 10, 0, 0)
    ELSE IF Len(s) >= 3 /\ s[2] \in {"o", "O"}
         THEN ParseDigits(s, 3, 8, 0, 0)
    ELSE IF Len(s) >= 3 /\ s[2] \in {"b", "B"}
         THEN ParseDigits(s, 3, 2, 0, 0)
    ELSE IF Len(s) >= 3 /\ s[2] \in {"x", "X"}
         THEN ParseDigits(s, 3, 16, 0, 0)
    ELSE ParseDigits(s, 2, 8, 0, 0)

----------------------------------------------------------------------------
(* The six regular expressions *)

\* ^[1-7][0-7]{2,}$
fmtImplicitInt(b) ==
    /\ Len(b) >= 3
    /\ b[1] \in Digit17
    /\ AllIn(b, 2, Len(b), Digit07)

\* ^0o?[0-7]{3,}$
fmtExplicitInt(b) ==
    /\ Len(b) >= 1
    /\ b[1] = "0"
    /\ LET from == IF Len(b) >= 2 /\ b[2] = "o" THEN 3 ELSE 2
       IN  /\ Len(b) - from + 1 >= 3
           /\ AllIn(b, from, Len(b), Digit07)

\* One clause (a|[ugo]{1,3})([-=+])([rwx]{1,3}) at b[i ..], with an actor of
\* al and a permission list of pl characters.
ClauseAt(b, i, al, pl) ==
    /\ i + al + pl <= Len(b)
    /\ IF b[i] = "a" THEN al = 1 ELSE AllIn(b, i, i + al - 1, Ugo)
    /\ b[i + al] \in Ops
    /\ AllIn(b, i + al + 1, i + al + pl, Rwx)

\* ^((a|[ugo]{1,3})([-=+])([rwx]{1,3})\s?)+$  from position i on
RECURSIVE SymbolicFrom(_, _)
SymbolicFrom(b, i) ==
    \E al \in 1 .. 3, pl \in 1 .. 3, ws \in 0 .. 1 :
        /\ ClauseAt(b, i, al, pl)
        /\ ws = 1 => (i + al + pl + 1 <= Len(b) /\ b[i + al + pl + 1] \in Whitespace)
        /\ LET next == i + al + 1 + pl + ws
           IN  IF next > Len(b) THEN TRUE ELSE SymbolicFrom(b, next)

fmtSymbolicMatch(b) == Len(b) >= 1 /\ SymbolicFrom(b, 1)

\* The leftmost-first match of (a|[ugo]{1,3})([-=+])([rwx]{1,3}) starting at
\* b[i]: greedy actor, greedy permission list.  <<>> when there is none.
ExtractAt(b, i) ==
    LET als == {al \in 1 .. 3 : \E pl \in 1 .. 3 : ClauseAt(b, i, al, pl)}
    IN  IF als = {} THEN <<>>
        ELSE LET al == CHOOSE x \in als : \A y \in als : y <= x
                 pls == {pl \in 1 .. 3 : ClauseAt(b, i, al, pl)}
                 pl == CHOOSE x \in pls : \A y \in pls : y <= x
             IN  << [actor |-> SubSeq(b, i, i + al - 1),
                     op    |-> b[i + al],
                     perm  |-> SubSeq(b, i + al + 1, i + al + pl),
                     end   |-> i + al + pl] >>

\* fmtSymbolicExtract.FindAllSubmatch(b, -1): successive non-overlapping matches
RECURSIVE FindAllFrom(_, _)
FindAllFrom(b, i) ==
    IF i > Len(b) THEN <<>>
    ELSE LET m == ExtractAt(b, i)
         IN  IF m = <<>> THEN FindAllFrom(b, i + 1)
             ELSE m \o FindAllFrom(b, m[1].end + 1)

fmtSymbolicExtract(b) == FindAllFrom(b, 1)

\* (r|-)(w|-)(x|-) at b[i .. i+2]
RwxAt(b, i) ==
    /\ b[i] \in {"r", "-"}
    /\ b[i + 1] \in {"w", "-"}
    /\ b[i + 2] \in {"x", "-"}

\* ^(r|-)(w|-)(x|-)$
fmtBasicSingle(b) == Len(b) = 3 /\ RwxAt(b, 1)

\* ^(r|-)(w|-)(x|-)(r|-)(w|-)(x|-)(r|-)(w|-)(x|-)$
fmtBasicTriple(b) == Len(b) = 9 /\ RwxAt(b, 1) /\ RwxAt(b, 4) /\ RwxAt(b, 7)

\* ^(-|[dalTLDpSugct?]*)(r|-)(w|-)(x|-) ... (x|-)$ : the last nine characters
\* are groups 2..10, what precedes them is group 1.
fmtFull(b) ==
    /\ Len(b) >= 9
    /\ LET n == Len(b) - 9
       IN  /\ RwxAt(b, n + 1) /\ RwxAt(b, n + 4) /\ RwxAt(b, n + 7)
           /\ IF n = 1 /\ b[1] = "-" THEN TRUE ELSE AllIn(b, 1, n, ModeLetters)

\* fmtFull.FindSubmatch(b): m[1] is the prefix, m[2..10] the nine columns
\* (index k here is Go's m[k]).
fmtFullSubmatch(b) ==
    LET n == Len(b) - 9
    IN  [k \in 1 .. 10 |-> IF k = 1 THEN SubSeq(b, 1, n) ELSE <<b[n + k - 1]>>]

----------------------------------------------------------------------------
(* The decoders.  Each takes the destination's current value p and the     *)
(* text b, and returns [p |-> the destination afterwards, err |-> whether  *)
(* an error is returned].                                                  *)

\* Mutant: the digits read in base 10.
fromImplicitBase10(p, b) ==
    LET r == ParseUint(b, 10)
    IN  IF r.err # "" THEN [p |-> p, err |-> TRUE]
        ELSE [p |-> r.v, err |-> FALSE]

fromImplicit(p, b) ==
    LET r == ParseUint(b, 8)          \* note base 8, because missing 0 prefix
    IN  IF r.err # "" THEN [p |-> p, err |-> TRUE]
        ELSE [p |-> r.v, err |-> FALSE]

\* Mutant: the value stored before the error is looked at.
fromExplicitStoreFirst(p, b) ==
    LET r == ParseUint(b, 0)
    IN  [p |-> r.v, err |-> r.err # ""]

\* Mutant: base 8 given instead of base 0, so that "0o" is no prefix.
fromExplicitBase8(p, b) ==
    LET r == ParseUint(b, 8)
    IN  IF r.err # "" THEN [p |-> p, err |-> TRUE]
        ELSE [p |-> r.v, err |-> FALSE]

fromExplicit(p, b) ==
    LET r == ParseUint(b, 0)          \* note base 0, to permit '0' and '0o' prefixes
    IN  IF r.err # "" THEN [p |-> p, err |-> TRUE]
        ELSE [p |-> r.v, err |-> FALSE]

\* for _, sym := range permexpr[1] { switch sym { ... } }
RECURSIVE ActorMask(_, _, _)
ActorMask(syms, i, actor) ==
    IF i > Len(syms) THEN actor
    ELSE ActorMask(syms, i + 1,
            CASE syms[i] = "a" -> O777
              [] syms[i] = "u" -> Or(actor, O700)
              [] syms[i] = "g" -> Or(actor, O070)
              [] syms[i] = "o" -> Or(actor, O007)
              [] OTHER -> actor)

\* for _, sym := range permexpr[3] { switch sym { ... } }
RECURSIVE PermMask(_, _, _)
PermMask(syms, i, actorperm) ==
    IF i > Len(syms) THEN actorperm
    ELSE PermMask(syms, i + 1,
            CASE syms[i] = "r" -> Or(actorperm, O444)
              [] syms[i] = "w" -> Or(actorperm, O222)
              [] syms[i] = "x" -> Or(actorperm, O111)
              [] OTHER -> actorperm)

\* Mutant: '=' assigns the whole value, dropping the other actors' bits.
ApplyOpAssignAll(perm, op, actor, actorperm) ==
    CASE op = "+" -> Or(perm, And(actor, actorperm))
      [] op = "-" -> And(perm, Not(And(actor, actorperm)))
      [] op = "=" -> And(actor, actorperm)
      [] OTHER -> perm

\* switch permexpr[2][0]
ApplyOp(perm, op, actor, actorperm) ==
    CASE op = "+" -> Or(perm, And(actor, actorperm))
      [] op = "-" -> And(perm, Not(And(actor, actorperm)))
      [] op = "=" -> Or(And(perm, Not(actor)), And(actor, actorperm))
      [] OTHER -> perm

\* for _, permexpr := range matches { ... }
RECURSIVE SymbolicLoop(_, _, _)
SymbolicLoop(matches, k, perm) ==
    IF k > Len(matches) THEN perm
    ELSE SymbolicLoop(matches, k + 1,
            ApplyOp(perm, matches[k].op,
                    ActorMask(matches[k].actor, 1, Zero),
                    PermMask(matches[k].perm, 1, Zero)))

fromSymbolic(p, b) ==
    [p |-> SymbolicLoop(fmtSymbolicExtract(b), 1, Zero), err |-> FALSE]

\* if b[i] == c { perm = perm | bits }   (i is Go's index, 0-based)
OrIf(perm, b, i, c, bits) == IF b[i + 1] = c THEN Or(perm, bits) ELSE perm

\* Mutant: 0o1111 written for 0o111.
fromBasicSingleWide(p, b) ==
    LET p0 == OrIf(Zero, b, 0, "r", O444)
        p1 == OrIf(p0, b, 1, "w", O222)
        p2 == OrIf(p1, b, 2, "x", Bits(585))
    IN  [p |-> p2, err |-> FALSE]

fromBasicSingle(p, b) ==
    LET p0 == OrIf(Zero, b, 0, "r", O444)
        p1 == OrIf(p0, b, 1, "w", O222)
        p2 == OrIf(p1, b, 2, "x", O111)
    IN  [p |-> p2, err |-> FALSE]

\* Mutant: the group's execute column sets the other's execute bit.
fromBasicTripleSlip(p, b) ==
    LET p0 == OrIf(Zero, b, 0, "r", O400)
        p1 == OrIf(p0, b, 1, "w", O200)
        p2 == OrIf(p1, b, 2, "x", O100)
        p3 == OrIf(p2, b, 3, "r", O040)
        p4 == OrIf(p3, b, 4, "w", O020)
        p5 == OrIf(p4, b, 5, "x", O001)
        p6 == OrIf(p5, b, 6, "r", O004)
        p7 == OrIf(p6, b, 7, "w", O002)
        p8 == OrIf(p7, b, 8, "x", O001)
    IN  [p |-> p8, err |-> FALSE]

fromBasicTriple(p, b) ==
    LET p0 == OrIf(Zero, b, 0, "r", O400)
        p1 == OrIf(p0, b, 1, "w", O200)
        p2 == OrIf(p1, b, 2, "x", O100)
        p3 == OrIf(p2, b, 3, "r", O040)
        p4 == OrIf(p3, b, 4, "w", O020)
        p5 == OrIf(p4, b, 5, "x", O010)
        p6 == OrIf(p5, b, 6, "r", O004)
        p7 == OrIf(p6, b, 7, "w", O002)
        p8 == OrIf(p7, b, 8, "x", O001)
    IN  [p |-> p8, err |-> FALSE]

\* Mutant: 'l' taken for the symbolic link's 'L'.
AttrBitsLowerL(attr) ==
    CASE attr = "d" -> ModeDir
      [] attr = "a" -> ModeAppend
      [] attr = "l" -> ModeSymlink
      [] attr = "T" -> ModeTemporary
      [] attr = "L" -> ModeSymlink
      [] attr = "D" -> ModeDevice
      [] attr = "p" -> ModeNamedPipe
      [] attr = "S" -> ModeSocket
      [] attr = "u" -> ModeSetuid
      [] attr = "g" -> ModeSetgid
      [] attr = "c" -> ModeCharDevice
      [] attr = "t" -> ModeSticky
      [] attr = "?" -> ModeIrregular
      [] OTHER -> Zero

\* Mutant: the case of 't' left out.
AttrBitsNoSticky(attr) ==
    CASE attr = "d" -> ModeDir
      [] attr = "a" -> ModeAppend
      [] attr = "l" -> ModeExclusive
      [] attr = "T" -> ModeTemporary
      [] attr = "L" -> ModeSymlink
      [] attr = "D" -> ModeDevice
      [] attr = "p" -> ModeNamedPipe
      [] attr = "S" -> ModeSocket
      [] attr = "u" -> ModeSetuid
      [] attr = "g" -> ModeSetgid
      [] attr = "c" -> ModeCharDevice
      [] attr = "?" -> ModeIrregular
      [] OTHER -> Zero

\* switch attr { case 'd': ... case '-': }
AttrBits(attr) ==
    CASE attr = "d" -> ModeDir
      [] attr = "a" -> ModeAppend
      [] attr = "l" -> ModeExclusive
      [] attr = "T" -> ModeTemporary
      [] attr = "L" -> ModeSymlink
      [] attr = "D" -> ModeDevice
      [] attr = "p" -> ModeNamedPipe
      [] attr = "S" -> ModeSocket
      [] attr = "u" -> ModeSetuid
      [] attr = "g" -> ModeSetgid
      [] attr = "c" -> ModeCharDevice
      [] attr = "t" -> ModeSticky
      [] attr = "?" -> ModeIrregular
      [] OTHER -> Zero                \* '-' represents no special bits

\* for _, attr := range m[1] { ... }
RECURSIVE AttrLoop(_, _, _)
AttrLoop(attrs, i, perm) ==
    IF i > Len(attrs) THEN perm
    ELSE AttrLoop(attrs, i + 1, Or(perm, AttrBits(attrs[i])))

\* Mutant: the other's execute column sets the group's execute bit.
fromFullSlip(p, b) ==
    LET m  == fmtFullSubmatch(b)
        pa == AttrLoop(m[1], 1, Zero)
        p0 == OrIf(pa, m[2], 0, "r", O400)
        p1 == OrIf(p0, m[3], 0, "w", O200)
        p2 == OrIf(p1, m[4], 0, "x", O100)
        p3 == OrIf(p2, m[5], 0, "r", O040)
        p4 == OrIf(p3, m[6], 0, "w", O020)
        p5 == OrIf(p4, m[7], 0, "x", O010)
        p6 == OrIf(p5, m[8], 0, "r", O004)
        p7 == OrIf(p6, m[9], 0, "w", O002)
        p8 == OrIf(p7, m[10], 0, "x", O010)
    IN  [p |-> p8, err |-> FALSE]

fromFull(p, b) ==
    LET m  == fmtFullSubmatch(b)
        pa == AttrLoop(m[1], 1, Zero)
        p0 == OrIf(pa, m[2], 0, "r", O400)
        p1 == OrIf(p0, m[3], 0, "w", O200)
        p2 == OrIf(p1, m[4], 0, "x", O100)
        p3 == OrIf(p2, m[5], 0, "r", O040)
        p4 == OrIf(p3, m[6], 0, "w", O020)
        p5 == OrIf(p4, m[7], 0, "x", O010)
        p6 == OrIf(p5, m[8], 0, "r", O004)
        p7 == OrIf(p6, m[9], 0, "w", O002)
        p8 == OrIf(p7, m[10], 0, "x", O001)
    IN  [p |-> p8, err |-> FALSE]

----------------------------------------------------------------------------
(* Entry points *)

\* The result of a decoder, with the grammar that was dispatched to.
Via(g, res) == [p |-> res.p, err |-> res.err, grammar |-> g]

\* (p *Perm) UnmarshalText(b): [p, err, grammar]; grammar is "none" when no
\* expression matches.
UnmarshalText(p, b) ==
    IF fmtImplicitInt(b) THEN Via("implicit", fromImplicit(p, b))
    ELSE IF fmtExplicitInt(b) THEN Via("explicit", fromExplicit(p, b))
    ELSE IF fmtBasicSingle(b) THEN Via("basicSingle", fromBasicSingle(p, b))
    ELSE IF fmtBasicTriple(b) THEN Via("basicTriple", fromBasicTriple(p, b))
    ELSE IF fmtSymbolicMatch(b) THEN Via("symbolic", fromSymbolic(p, b))
    ELSE IF fmtFull(b) THEN Via("full", fromFull(p, b))
    ELSE [p |-> p, err |-> TRUE, grammar |-> "none"]

\* fs.FileMode(p).String(): the letters of the set mode bits in the order of
\* ModeStr, or "-" when there is none, then the nine permission columns.
RECURSIVE ModeChars(_, _)
ModeChars(m, j) ==
    IF j > Len(ModeStr) THEN <<>>
    ELSE (IF (BitSize - j) \in m THEN <<ModeStr[j]>> ELSE <<>>) \o ModeChars(m, j + 1)

String(p) ==
    LET buf == ModeChars(p, 1)
    IN  (IF buf = <<>> THEN <<"-">> ELSE buf)
        \o [i \in 1 .. 9 |-> IF (9 - i) \in p THEN RwxStr[i] ELSE "-"]

\* Mutant: the nine permission characters alone, without the mode characters.
MarshalTextOfBare(p) == SubSeq(String(p), Len(String(p)) - 8, Len(String(p)))

\* (p Perm) MarshalText(): never an error
MarshalTextOf(p) == String(p)

\* FromString(s): r is the zero value until UnmarshalText assigns it
FromStringOf(s) == UnmarshalText(Zero, s)

\* FromFileMode(m): r = Perm(m)
FromFileModeOf(m) == m

----------------------------------------------------------------------------
(* Inputs.  The texts handed to UnmarshalText and the modes handed to      *)
(* FromFileMode are drawn from the families below.                         *)

\* Longest digit string of the long octal family.
MaxOctalLen == 11

\* Longest type/mode prefix of the enumerated full-form texts.
MaxPrefixLen == 2

\* Most clauses of an enumerated multi-clause symbolic text.
MaxClauses == 2

\* Longest text over the mixed alphabet.
MaxMixedLen == 3

\* Most mode bits of an enumerated file mode (besides the one with all of them).
MaxModeBits == 2

Rep(c, n) == [i \in 1 .. n |-> c]

\* "", "0" and "0o"
OctalPrefixes == {<<>>, <<"0">>, <<"0", "o">>}

\* every two- and three-digit decimal string, bare and behind "0" and "0o"
NumberTexts ==
    {pre \o ds : pre \in OctalPrefixes, ds \in [1 .. 2 -> Digit09] \cup [1 .. 3 -> Digit09]}

\* a digit followed by n zeros or n sevens, up to MaxOctalLen digits
LongOctalTexts ==
    {pre \o <<d>> \o Rep(e, n) :
        pre \in OctalPrefixes, d \in Digit07, e \in {"0", "7"}, n \in 3 .. (MaxOctalLen - 1)}

\* every three-character text over r, w, x and "-"
LsTexts == [1 .. 3 -> Rwx \cup {"-"}]

SingleTexts == {<<r, w, x>> : r \in {"r", "-"}, w \in {"w", "-"}, x \in {"x", "-"}}

TripleTexts == {s1 \o s2 \o s3 : s1 \in SingleTexts, s2 \in SingleTexts, s3 \in SingleTexts}

TripleSamples ==
    { <<"r", "w", "x", "r", "w", "x", "r", "w", "x">>,
      <<"r", "w", "x", "r", "-", "x", "-", "-", "-">>,
      <<"r", "-", "-", "-", "w", "x", "-", "w", "-">>,
      <<"-", "-", "-", "-", "-", "-", "-", "-", "-">> }

PrefixTexts == UNION {[1 .. n -> ModeLetters \cup {"-"}] : n \in 0 .. MaxPrefixLen}

FullTexts ==
    {<<"-">> \o t : t \in TripleTexts}
    \cup {pre \o t : pre \in PrefixTexts \cup {ModeStr}, t \in TripleSamples}

ActorTexts == {<<"a">>} \cup UNION {[1 .. n -> Ugo] : n \in 1 .. 3}

PermTexts == UNION {[1 .. n -> Rwx] : n \in 1 .. 3}

\* every single clause, and a sample of clauses for the multi-clause texts
SingleClauses == [actor : ActorTexts, op : Ops, perm : PermTexts]

SampleClauses ==
    [actor : {<<"a">>, <<"u">>, <<"g", "o">>}, op : Ops, perm : {<<"r">>, <<"w", "x">>}]

ClauseSeqs == UNION {[1 .. n -> SampleClauses] : n \in 2 .. MaxClauses}

Separators == {<<>>, <<" ">>}

ClauseText(c) == c.actor \o <<c.op>> \o c.perm

RECURSIVE Join(_, _, _)
Join(cs, k, sep) ==
    IF k = Len(cs) THEN ClauseText(cs[k])
    ELSE ClauseText(cs[k]) \o sep \o Join(cs, k + 1, sep)

SymbolicTexts ==
    {ClauseText(c) : c \in SingleClauses}
    \cup {ClauseText(c) \o <<w>> : c \in SampleClauses, w \in Whitespace}
    \cup {Join(cs, 1, sep) : cs \in ClauseSeqs, sep \in Separators}

MixedAlphabet == {"0", "7", "o", "r", "-", "u", "=", "a"}

MixedTexts == UNION {[1 .. n -> MixedAlphabet] : n \in 0 .. MaxMixedLen}

\* texts of the test suite (octal_test.go) and further ones its grammars accept
AcceptedTexts ==
    { <<"a", "=", "r", "w", "x">>,
      <<"a", "=", "r", "w", "x", " ", "o", "-", "w">>,
      <<"a", "=", "r", "w", "x", "o", "-", "w">>,
      <<"u", "=", "x", " ", "g", "=", "w", " ", "o", "=", "r">>,
      <<"u", "+", "w", " ", "u", "+", "r", " ", "u", "+", "w">>,
      <<"u", "+", "w", "u", "=", "r", "u", "+", "w", "u", "-", "r">>,
      <<"a", "=", "r", "w", "x", " ", "o", "-", "r", " ", "a", "-", "w", " ", "o", "-", "x", " ", "o", "+", "r">>,
      <<"u", "g", "r", "w", "x", "r", "-", "x", "r", "-", "x">>,
      <<"d", "r", "w", "x", "r", "w", "x", "r", "w", "x">>,
      <<"g", "u", "r", "w", "x", "r", "-", "x", "r", "-", "x">>,
      <<"d", "d", "r", "w", "x", "r", "-", "x", "-", "-", "-">> }

\* texts the test suite expects to be rejected, and further malformed ones
RejectedTexts ==
    { <<"6", "7", "8">>,
      <<"9", "9", "9">>,
      <<"0", "6", "7", "8">>,
      <<"0", "o", "6", "7", "8">>,
      <<"0", "9", "9", "9">>,
      <<"0", "o", "9", "9", "9">>,
      <<"0", "O", "6", "4", "4">>,
      <<"a", "=", "r", "w", "z">>,
      <<"u", "=", "r", "w", " ", "o", "+", "x", " ", "m", "+", "w">>,
      <<"a", "=", "r", "w", "x", " ", "o", "!", "x">>,
      <<"a", "=", "r", "w", "x", " ", "g", "~", "x">>,
      <<"r", "x", "w">>,
      <<"-", "r", "-">>,
      <<"r", "W", "x">>,
      <<"r", "w", "x", "r", "m", "x", "r", "w", "x">>,
      <<"w", "r", "x", "w", "r", "x", "w", "r", "x">>,
      <<"r", "w", "?", "r", "w", "x", "r", "w", "x">>,
      <<"-", "r", "w", "x", "r", "m", "x", "r", "w", "x">>,
      <<"-", "w", "r", "x", "w", "r", "x", "w", "r", "x">>,
      <<"-", "r", "w", "?", "r", "w", "x", "r", "w", "x">>,
      <<"a", "u", "=", "r">>,
      <<"u", "u", "u", "u", "=", "r">>,
      <<"u", "=", "r", "w", "x", "r">>,
      <<"u", "=", "r", " ", " ", "g", "=", "w">>,
      <<"-", "d", "r", "w", "x", "r", "w", "x", "r", "w", "x">>,
      <<"d", "-", "r", "w", "x", "r", "w", "x", "r", "w", "x">>,
      <<"u", "=">>,
      <<"=", "r">> }

Inputs ==
    NumberTexts \cup LongOctalTexts \cup LsTexts \cup TripleTexts \cup FullTexts
    \cup SymbolicTexts \cup MixedTexts \cup AcceptedTexts \cup RejectedTexts

PermBits == 0 .. 8

ModeBits == 19 .. 31

\* the nine permission bits and the thirteen mode bits of io/fs
KnownBits == PermBits \cup ModeBits

PermSamples == {Zero, O777, Oct3(7, 5, 0), Oct3(4, 3, 2)}

ModeSets == {ms \in SUBSET ModeBits : Cardinality(ms) <= MaxModeBits}

FileModes ==
    {ms \cup ps : ms \in {m \in ModeSets : Cardinality(m) <= 1}, ps \in SUBSET PermBits}
    \cup {ms \cup ps : ms \in ModeSets \cup {ModeBits}, ps \in PermSamples}
    \cup { {9}, {18} \cup Oct3(6, 4, 4), ModeDir \cup {12} \cup Oct3(7, 5, 5), AllBits }

\* a destination is the zero value (var p Perm) or constructed from a number
InitPerms == {Zero, Oct3(6, 4, 4)}

----------------------------------------------------------------------------
(* The state machine: one Perm p and the calls made on it.                 *)

VARIABLES
    p,        \* the Perm value
    calls,    \* the entry points called so far, in order
    before,   \* p before the call of UnmarshalText
    b,        \* the text given to UnmarshalText
    err,      \* whether UnmarshalText returned an error
    grammar,  \* the decoder UnmarshalText dispatched to ("none": no match)
    text,     \* the result of MarshalText
    res       \* the result of FromString(text): [p, err, grammar]

vars == <<p, calls, before, b, err, grammar, text, res>>

NoResult == [p |-> Zero, err |-> FALSE, grammar |-> ""]

Init ==
    /\ p \in InitPerms
    /\ calls = <<>>
    /\ before = Zero
    /\ b = <<>>
    /\ err = FALSE
    /\ grammar = ""
    /\ text = <<>>
    /\ res = NoResult

\* err := p.UnmarshalText(in)
DoUnmarshalText(in) ==
    /\ LET r == UnmarshalText(p, in)
       IN  /\ p' = r.p
           /\ err' = r.err
           /\ grammar' = r.grammar
    /\ before' = p
    /\ b' = in
    /\ calls' = <<"UnmarshalText">>
    /\ UNCHANGED <<text, res>>

\* p, _ = FromFileMode(m)
DoFromFileMode(m) ==
    /\ p' = FromFileModeOf(m)
    /\ calls' = <<"FromFileMode">>
    /\ UNCHANGED <<before, b, err, grammar, text, res>>

\* text, _ = p.MarshalText()
DoMarshalText ==
    /\ Len(calls) = 1
    /\ text' = MarshalTextOf(p)
    /\ calls' = Append(calls, "MarshalText")
    /\ UNCHANGED <<p, before, b, err, grammar, res>>

\* res = FromString(text)
DoFromString ==
    /\ Len(calls) = 2
    /\ res' = FromStringOf(text)
    /\ calls' = Append(calls, "FromString")
    /\ UNCHANGED <<p, before, b, err, grammar, text>>

\* a text is unmarshaled into a fresh destination
CallUnmarshalText == calls = <<>> /\ \E in \in Inputs : DoUnmarshalText(in)

\* a fresh value is made from a file mode
CallFromFileMode == calls = <<>> /\ \E m \in FileModes : DoFromFileMode(m)

Next ==
    \/ CallUnmarshalText
    \/ CallFromFileMode
    \/ DoMarshalText
    \/ DoFromString

Spec == Init /\ [][Next]_vars

----------------------------------------------------------------------------
(* Properties *)

\* UnmarshalText has just returned
Unmarshaled == calls = <<"UnmarshalText">>

\* MarshalText has just returned, on the destination of UnmarshalText
Marshaled == calls = <<"UnmarshalText", "MarshalText">>

\* the value was made by FromFileMode
Converted == Len(calls) >= 1 /\ calls[1] = "FromFileMode"

\* FromString has just returned
Reparsed == Len(calls) = 3

OctalChars == <<"0", "1", "2", "3", "4", "5", "6", "7">>

\* fmt.Sprintf("%o", v)
RECURSIVE SprintfO(_)
SprintfO(v) ==
    IF v < 8 THEN <<OctalChars[v + 1]>>
    ELSE SprintfO(v \div 8) \o <<OctalChars[(v % 8) + 1]>>

\* fmt.Sprintf("%03o", v) for v below 0o1000
Sprintf03o(v) ==
    <<OctalChars[(v \div 64) + 1], OctalChars[((v \div 8) % 8) + 1], OctalChars[(v % 8) + 1]>>

\* the number whose octal digits are the last three characters of t
Last3(t) ==
    LET n == Len(t)
    IN  DigitVal(t[n - 2]) * 64 + DigitVal(t[n - 1]) * 8 + DigitVal(t[n])

\* t is one of the texts of the octal round trip, for the number v
RoundTripText(t, v) ==
    \/ v \in 64 .. 511 /\ t = SprintfO(v)
    \/ v \in 0 .. 511 /\ t = <<"0">> \o Sprintf03o(v)
    \/ v \in 0 .. 511 /\ t = <<"0", "o">> \o Sprintf03o(v)

\* C1: parsing the unpadded octal digits of any v in 0o100..0o777, and parsing
\* "0"+ddd and "0o"+ddd for any v in 0..0o777 (ddd = v in octal, padded to three
\* digits), succeeds and stores exactly v.
C1_OctalRoundTrip ==
    (Unmarshaled /\ Len(b) >= 3) =>
        LET v == Last3(b)
        IN  RoundTripText(b, v) => (~err /\ p = Bits(v))

C1_Witness ==
    /\ Unmarshaled
    /\ b = <<"0", "o", "6", "4", "4">>
    /\ ~err
    /\ p = Oct3(6, 4, 4)

\* The actors and permissions a clause names, and the accumulator of the fold
\* as a set of <<actor, permission>> pairs.
ActorsOf(actor) == IF actor = <<"a">> THEN Ugo ELSE {actor[i] : i \in 1 .. Len(actor)}

PermsOf(perm) == {perm[i] : i \in 1 .. Len(perm)}

BitOf(a, q) ==
    (CASE a = "u" -> 6 [] a = "g" -> 3 [] a = "o" -> 0)
    + (CASE q = "r" -> 2 [] q = "w" -> 1 [] q = "x" -> 0)

RECURSIVE FoldClauses(_, _, _)
FoldClauses(cs, k, acc) ==
    IF k > Len(cs) THEN acc
    ELSE LET A == ActorsOf(cs[k].actor)
             AP == A \X PermsOf(cs[k].perm)
         IN  FoldClauses(cs, k + 1,
                CASE cs[k].op = "+" -> acc \cup AP
                  [] cs[k].op = "-" -> acc \ AP
                  [] cs[k].op = "=" -> {e \in acc : e[1] \notin A} \cup AP)

FoldValue(cs) == {BitOf(e[1], e[2]) : e \in FoldClauses(cs, 1, {})}

\* The clauses of a symbolic text, read off its characters: a clause starts
\* at an actor letter that follows no actor letter, its operator is its
\* character of Ops, its permissions are the letters after the operator.
ActorLetters == {"a"} \cup Ugo

IsStart(t, i) == t[i] \in ActorLetters /\ (i = 1 \/ t[i - 1] \notin ActorLetters)

ClauseOf(t, s, e) ==
    LET o == CHOOSE j \in s .. e : t[j] \in Ops
    IN  [actor |-> SubSeq(t, s, o - 1),
         op    |-> t[o],
         perm  |-> SelectSeq(SubSeq(t, o + 1, e), LAMBDA c : c \in Rwx)]

RECURSIVE ClausesFrom(_, _)
ClausesFrom(t, s) ==
    LET later == {i \in (s + 1) .. Len(t) : IsStart(t, i)}
        e == IF later = {} THEN Len(t)
             ELSE (CHOOSE i \in later : \A j \in later : i <= j) - 1
    IN  <<ClauseOf(t, s, e)>> \o (IF e = Len(t) THEN <<>> ELSE ClausesFrom(t, e + 1))

\* the examples of the test suite
SymbolicExamples ==
    { <<<<"a", "=", "r", "w", "x", " ", "o", "-", "r", " ", "a", "-", "w", " ", "o", "-", "x", " ", "o", "+", "r">>, Oct3(5, 5, 4)>>,
      <<<<"u", "+", "w", "u", "=", "r", "u", "+", "w", "u", "-", "r">>, Oct3(2, 0, 0)>>,
      <<<<"a", "=", "r", "w", "x", " ", "o", "-", "w">>, Oct3(7, 7, 5)>>,
      <<<<"u", "=", "x", " ", "g", "=", "w", " ", "o", "=", "r">>, Oct3(1, 2, 4)>>,
      <<<<"u", "+", "w", " ", "u", "+", "r", " ", "u", "+", "w">>, Oct3(6, 0, 0)>> }

\* C2: the value of a symbolic text is the left-to-right fold of its clauses
\* from 0 ('+' adds the named actors' named permissions, '-' removes them, '='
\* replaces the named actors' permissions and leaves the other actors' alone),
\* and it has no bit outside 0o777.
C2_SymbolicFold ==
    (Unmarshaled /\ grammar = "symbolic") =>
        /\ ~err
        /\ p \subseteq PermBits
        /\ p = FoldValue(ClausesFrom(b, 1))
        /\ \A e \in SymbolicExamples : b = e[1] => p = e[2]

C2_Witness ==
    /\ Unmarshaled
    /\ grammar = "symbolic"
    /\ b = <<"a", "=", "r", " ", "u", "=", "w", "x">>
    /\ p = Oct3(3, 4, 4)

\* The prefix of a full-form text, and whether it is what String writes: "-",
\* or mode letters in the order of ModeStr, none twice.
PrefixOf(t) == SubSeq(t, 1, Len(t) - 9)

ModeIndex(c) == CHOOSE j \in 1 .. Len(ModeStr) : ModeStr[j] = c

CanonicalPrefix(pre) ==
    IF pre = <<"-">> THEN TRUE
    ELSE /\ Len(pre) >= 1
         /\ \A i \in 1 .. Len(pre) : pre[i] \in ModeLetters
         /\ \A i \in 1 .. (Len(pre) - 1) : ModeIndex(pre[i]) < ModeIndex(pre[i + 1])

\* C3 as stated: any full-form text, whatever its prefix (empty and "-"
\* included), is reproduced by UnmarshalText then MarshalText.
C3_AnyFullFormFixedPoint ==
    (Marshaled /\ fmtFull(b)) => (~err /\ text = b)

\* C3, amended: a full-form text whose prefix is "-" or a non-empty run of
\* distinct mode letters in the order "dalTLDpSugct?" is reproduced byte for
\* byte by UnmarshalText then MarshalText.
C3_CanonicalFullFixedPoint ==
    (Marshaled /\ fmtFull(b) /\ CanonicalPrefix(PrefixOf(b))) =>
        (~err /\ text = b)

C3_Witness ==
    /\ Marshaled
    /\ b = <<"u", "g", "r", "w", "x", "r", "-", "x", "r", "-", "x">>
    /\ text = b

OctalGrammars == {"implicit", "explicit"}

\* an octal text whose value is below 0o1000: only "0" (and the "o" of the
\* prefix) before its last three digits
BelowO1000(t) == \A i \in 1 .. (Len(t) - 3) : t[i] \in {"0", "o"}

\* C4 as stated: whatever grammar accepted the input, the value has no bit
\* besides the nine permission bits and the thirteen mode bits.
C4_OnlyKnownBitsAnyGrammar ==
    (Unmarshaled /\ ~err) => p \subseteq KnownBits

\* C4, amended: an input accepted through the symbolic, basic single, basic
\* triple or full grammar yields no bit besides the nine permission bits and
\* the thirteen mode bits (symbolic and basic: permission bits only); an octal
\* input yields its base-8 value, within the permission bits when below 0o1000.
C4_OnlyKnownBitsNonOctal ==
    (Unmarshaled /\ ~err) =>
        /\ grammar \notin OctalGrammars => p \subseteq KnownBits
        /\ grammar \in {"symbolic", "basicSingle", "basicTriple"} => p \subseteq PermBits
        /\ (grammar \in OctalGrammars /\ BelowO1000(b)) => p \subseteq PermBits

C4_Witness ==
    /\ Unmarshaled
    /\ ~err
    /\ grammar = "full"
    /\ b = <<"d", "r", "w", "x", "r", "w", "x", "r", "w", "x">>
    /\ p = ModeDir \cup O777

\* C5: when UnmarshalText returns an error the destination holds what it held
\* before the call; when it returns nil the destination holds the decoded
\* value, which owes nothing to what the destination held before.
C5_ErrorLeavesDestination ==
    Unmarshaled =>
        /\ err => p = before
        /\ ~err => \A q \in InitPerms :
                      UnmarshalText(q, b) = [p |-> p, err |-> FALSE, grammar |-> grammar]

C5_Witness ==
    /\ Unmarshaled
    /\ err
    /\ grammar = "explicit"
    /\ before = Oct3(6, 4, 4)
    /\ p = before

MatchesNone(t) ==
    /\ ~fmtImplicitInt(t)
    /\ ~fmtExplicitInt(t)
    /\ ~fmtSymbolicMatch(t)
    /\ ~fmtBasicSingle(t)
    /\ ~fmtBasicTriple(t)
    /\ ~fmtFull(t)

\* The digits of an octal text after the prefix and the leading zeros, and
\* whether their base-8 value exceeds 2^32-1 = 0o37777777777.
RECURSIVE SignificantFrom(_, _)
SignificantFrom(t, i) ==
    IF i > Len(t) THEN <<>>
    ELSE IF t[i] \in {"0", "o"} THEN SignificantFrom(t, i + 1)
    ELSE SubSeq(t, i, Len(t))

ExceedsUint32(t) ==
    LET ds == SignificantFrom(t, 1)
    IN  IF Len(ds) = 11 THEN ds[1] \in {"4", "5", "6", "7"} ELSE Len(ds) > 11

\* C6: UnmarshalText returns an error exactly when the input matches none of
\* the six grammars, or matches an octal grammar with a value above 2^32-1.
C6_ErrorExactly ==
    Unmarshaled =>
        /\ err <=> IF fmtImplicitInt(b) \/ fmtExplicitInt(b) THEN ExceedsUint32(b)
                   ELSE MatchesNone(b)
        /\ b \in RejectedTexts => err
        /\ b \in AcceptedTexts => ~err

C6_Witness ==
    /\ Unmarshaled
    /\ err
    /\ b = <<"0", "o", "4", "7", "7", "7", "7", "7", "7", "7", "7", "7", "7">>

NonFullGrammars == {"implicit", "explicit", "symbolic", "basicSingle", "basicTriple"}

\* the nine permission characters of a value
PermChars(v) == [i \in 1 .. 9 |-> IF (9 - i) \in v THEN RwxStr[i] ELSE "-"]

\* the three characters of one octal digit
DigitChars(c) ==
    LET d == DigitVal(c)
    IN  << IF d \div 4 = 1 THEN "r" ELSE "-",
           IF (d \div 2) % 2 = 1 THEN "w" ELSE "-",
           IF d % 2 = 1 THEN "x" ELSE "-" >>

\* C7 as stated: a value of any non-full grammar formats to ten characters,
\* one mode character ("-" without special bits) and nine permission characters.
C7_NonFullFormatsToTen ==
    (Marshaled /\ ~err /\ grammar \in NonFullGrammars) =>
        /\ Len(text) = 10
        /\ p \cap ModeBits = {} => text[1] = "-"
        /\ SubSeq(text, 2, 10) = PermChars(p)

\* C7, amended: a value of a non-full grammar formats to the full form, its
\* mode characters ("-" without special bits, else one letter per special bit)
\* and nine permission characters; that is ten characters when at most one
\* special bit is set, as for every symbolic and basic text and every octal
\* text below 0o1000, whose nine characters are those of the text's columns
\* or octal digits.
C7_NonFullFormatsToFull ==
    (Marshaled /\ ~err /\ grammar \in NonFullGrammars) =>
        LET k == Cardinality(p \cap ModeBits)
            n == Len(b)
        IN  /\ Len(text) = 9 + (IF k = 0 THEN 1 ELSE k)
            /\ k = 0 => text[1] = "-"
            /\ SubSeq(text, Len(text) - 8, Len(text)) = PermChars(p)
            /\ grammar \in {"symbolic", "basicSingle", "basicTriple"} => k = 0
            /\ grammar = "basicTriple" => text = <<"-">> \o b
            /\ grammar = "basicSingle" => text = <<"-">> \o b \o b \o b
            /\ (grammar \in OctalGrammars /\ BelowO1000(b)) =>
                  text = <<"-">> \o DigitChars(b[n - 2]) \o DigitChars(b[n - 1]) \o DigitChars(b[n])

C7_Witness ==
    /\ Marshaled
    /\ grammar = "implicit"
    /\ b = <<"6", "4", "4">>
    /\ text = <<"-", "r", "w", "-", "r", "-", "-", "r", "-", "-">>

\* the value whose bit 9-i is set iff column i of the nine-character t holds
\* a letter
ColumnBits(t) == {9 - i : i \in {j \in 1 .. 9 : t[j] # "-"}}

\* C8: a basic-single text s parses to the value of s+s+s (r, w, x broadcast to
\* 0o444, 0o222, 0o111); a basic-triple text t and "-"+t both parse to the
\* value whose bits are the columns of t that hold a letter.
C8_LsDecodersAgree ==
    Unmarshaled =>
        /\ grammar = "basicSingle" =>
              /\ ~err
              /\ p = (IF b[1] = "r" THEN Oct3(4, 4, 4) ELSE {})
                     \cup (IF b[2] = "w" THEN Oct3(2, 2, 2) ELSE {})
                     \cup (IF b[3] = "x" THEN Oct3(1, 1, 1) ELSE {})
              /\ UnmarshalText(before, b \o b \o b)
                    = [p |-> p, err |-> FALSE, grammar |-> "basicTriple"]
        /\ grammar = "basicTriple" =>
              /\ ~err
              /\ p = ColumnBits(b)
              /\ UnmarshalText(before, <<"-">> \o b)
                    = [p |-> p, err |-> FALSE, grammar |-> "full"]

C8_Witness ==
    /\ Unmarshaled
    /\ grammar = "basicSingle"
    /\ b = <<"r", "-", "x">>
    /\ p = Oct3(5, 5, 5)

\* The grammars in the priority order of the specification.
SpecOrder == <<"implicit", "explicit", "symbolic", "basicSingle", "basicTriple", "full">>

Matches(g, t) ==
    CASE g = "implicit" -> fmtImplicitInt(t)
      [] g = "explicit" -> fmtExplicitInt(t)
      [] g = "symbolic" -> fmtSymbolicMatch(t)
      [] g = "basicSingle" -> fmtBasicSingle(t)
      [] g = "basicTriple" -> fmtBasicTriple(t)
      [] g = "full" -> fmtFull(t)

Decode(g, q, t) ==
    CASE g = "implicit" -> fromImplicit(q, t)
      [] g = "explicit" -> fromExplicit(q, t)
      [] g = "symbolic" -> fromSymbolic(q, t)
      [] g = "basicSingle" -> fromBasicSingle(q, t)
      [] g = "basicTriple" -> fromBasicTriple(q, t)
      [] g = "full" -> fromFull(q, t)

\* first match wins, in the order of SpecOrder
FirstMatch(q, t) ==
    LET ks == {k \in 1 .. Len(SpecOrder) : Matches(SpecOrder[k], t)}
    IN  IF ks = {} THEN [p |-> q, err |-> TRUE]
        ELSE Decode(SpecOrder[CHOOSE k \in ks : \A j \in ks : k <= j], q, t)

\* C9: the outcome of UnmarshalText is that of first-match-wins in the order
\* implicit, explicit, symbolic, basic single, basic triple, full, and all
\* decoders whose grammar matches an input give the same outcome.
C9_DispatchOrderIndependent ==
    Unmarshaled =>
        /\ [p |-> p, err |-> err] = FirstMatch(before, b)
        /\ \A k \in 1 .. Len(SpecOrder) :
              Matches(SpecOrder[k], b) => Decode(SpecOrder[k], before, b) = [p |-> p, err |-> err]

C9_Witness ==
    /\ Unmarshaled
    /\ grammar = "basicTriple"
    /\ fmtFull(b)
    /\ b = <<"r", "w", "x", "r", "-", "x", "-", "-", "-">>
    /\ p = Oct3(7, 5, 0)

\* C10: a value with no bit outside the permission and mode bits is returned
\* by FromString from its own String(), which is decoded as the full grammar.
C10_FormatParseRoundTrip ==
    (Reparsed /\ p \subseteq KnownBits) =>
        (text = String(p) /\ res = [p |-> p, err |-> FALSE, grammar |-> "full"])

C10_Witness ==
    /\ Reparsed
    /\ Converted
    /\ p = ModeDir \cup ModeSetuid \cup Oct3(7, 5, 0)
    /\ text = <<"d", "u", "r", "w", "x", "r", "-", "x", "-", "-", "-">>
    /\ res.p = p
    /\ ~res.err

====
